---- MODULE Spec2Model ----
(***************************************************************************)
(* A state-machine model of contrib/amcheck/verify_gin.c (the revision at  *)
(* lines 1-618 of the file): gin_index_parent_check, the entry-tree walker *)
(* gin_check_parent_keys_consistency, validate_leaf, the posting-tree      *)
(* walker gin_check_posting_tree_parent_keys_consistency, check_index_page *)
(* and gin_refind_parent.                                                  *)
(*                                                                         *)
(* The index is a function from block numbers to pages.  The verifier is a *)
(* single thread; one action models one stretch of code between two page   *)
(* accesses (or nested calls), so that the set of held page locks can be   *)
(* observed between them.                                                  *)
(***************************************************************************)
EXTENDS Integers, Sequences, FiniteSets, TLC

VARIABLES
    index,        \* [Blocks -> page]: the pages of the index relation
    pc,           \* position of the verifier
    stack,        \* GinScanItem list of the entry walker, head first
    leafdepth,    \* leafdepth of gin_check_parent_keys_consistency
    i,            \* offset of the intra-page scan of the entry walker
    j,            \* offset of the loop of validate_leaf
    ptstack,      \* GinPostingTreeScanItem list, head first
    ptleafdepth,  \* leafdepth of the posting-tree walker
    held,         \* page locks held, in order of acquisition
    out,          \* messages emitted with elog / ereport below ERROR
    result,       \* outcome of the call: none, ok, or the error raised
    visited,      \* history: blocks read by the two walkers
    oob,          \* history: ipd[nipd-1] was read with nipd = 0
    nread,        \* history: tuples read from the entry page being visited
    first,        \* history: the outcome and the messages of an earlier call
    rel,          \* the relation handed to gin_index_parent_check
    cancel,       \* the host's pending-interrupt flag
    splits        \* history: the page splits of the concurrent writer

vars == <<index, pc, stack, leafdepth, i, j, ptstack, ptleafdepth, held, out,
          result, visited, oob, nread, first, rel, cancel, splits>>

-----------------------------------------------------------------------------
(* Bounds of the model *)

\* keys of entry tuples are 1..MaxKey
MaxKey == 2

\* item pointers of an inline posting list: at most MaxItems of them
MaxItems == 2

\* The per-page maximum of index tuples, scaled down so that a page with
\* more tuples than the maximum is small.
MaxIndexTuplesPerPage == 2

-----------------------------------------------------------------------------
(* Program constants *)

\* (BlockNumber) 0xFFFFFFFF, written as the 32-bit pattern read as an integer
InvalidBlockNumber == -1

GIN_ROOT_BLKNO == 1

InvalidOffsetNumber == 0

FirstOffsetNumber == 1

InvalidXLogRecPtr == 0

GIN_CAT_NORM_KEY == 0

\* the initial value of leafdepth: no leaf page seen yet
NoLeafDepth == -1

NoTup == [none |-> TRUE]

\* no earlier call has been made
NoCall == [none |-> TRUE]

-----------------------------------------------------------------------------
(* The pages *)

EntryBlocks == {1, 2, 3, 4}

DataBlocks == {5, 6, 7}

Blocks == EntryBlocks \cup DataBlocks

Keys == 1 .. MaxKey

\* heap item pointers <<block, offset>>; offset 0 is the invalid offset
ItemPointers == {<<0, 0>>, <<0, 1>>, <<1, 0>>, <<1, 1>>, <<1, 2>>}

SeqsUpTo(S, n) == UNION {[1 .. m -> S] : m \in 0 .. n}

ItemPointerGetBlockNumberNoCheck(ip) == ip[1]

ItemPointerGetOffsetNumberNoCheck(ip) == ip[2]

OffsetNumberIsValid(off) == off # InvalidOffsetNumber

MAXALIGN(len) == ((len + 7) \div 8) * 8

(* An inline posting list as stored in a leaf entry tuple: the count of the
   tuple header (nipd), the encoding, and the item pointers stored. *)
Posting(c, n, l) == [compressed |-> c, nipd |-> n, ipd |-> l]

(* A leaf entry tuple with an inline posting list. *)
LeafTup(k, p) ==
    [attnum |-> 1, key |-> k, category |-> GIN_CAT_NORM_KEY,
     lplen |-> 16, tupsize |-> 16, tid |-> InvalidBlockNumber,
     ptree |-> FALSE, ptroot |-> InvalidBlockNumber,
     compressed |-> p.compressed, nipd |-> p.nipd, ipd |-> p.ipd]

(* A leaf entry tuple that refers to the posting tree rooted at block r. *)
TreeTup(k, r) ==
    [attnum |-> 1, key |-> k, category |-> GIN_CAT_NORM_KEY,
     lplen |-> 16, tupsize |-> 16, tid |-> InvalidBlockNumber,
     ptree |-> TRUE, ptroot |-> r,
     compressed |-> FALSE, nipd |-> 0, ipd |-> <<>>]

(* An internal entry tuple: a key and the downlink to block b in t_tid. *)
DownTup(k, b) ==
    [attnum |-> 1, key |-> k, category |-> GIN_CAT_NORM_KEY,
     lplen |-> 16, tupsize |-> 16, tid |-> b,
     ptree |-> FALSE, ptroot |-> InvalidBlockNumber,
     compressed |-> FALSE, nipd |-> 0, ipd |-> <<>>]

(* A PostingItem of an internal data page. *)
PostingItem(k, b) == [key |-> k, child_blkno |-> b]

ValidPosting == Posting(TRUE, 1, <<<<1, 1>>>>)

EntryPage(lf, del, rl, ts) ==
    [leaf |-> lf, data |-> FALSE, deleted |-> del, hdrok |-> TRUE,
     rightlink |-> rl, lsn |-> 1, tups |-> ts]

DataPage(lf, rl, ts) ==
    [leaf |-> lf, data |-> TRUE, deleted |-> FALSE, hdrok |-> TRUE,
     rightlink |-> rl, lsn |-> 1, tups |-> ts]

EmptyLeaf == EntryPage(TRUE, FALSE, InvalidBlockNumber, <<>>)

DataLeaf(l) == DataPage(TRUE, InvalidBlockNumber, l)

(* The accessors of the page trailer and header used by the verifier. *)
GinPageIsLeaf(page) == page.leaf

GinPageIsData(page) == page.data

GinPageIsDeleted(page) == page.deleted

PageGetMaxOffsetNumber(page) == Len(page.tups)

GinIsPostingTree(itup) == itup.ptree

GinGetPostingTree(itup) == itup.ptroot

GinItupIsCompressed(itup) == itup.compressed

GinGetNPosting(itup) == itup.nipd

-----------------------------------------------------------------------------
(* The collaborators of the host *)

(* ginCompareEntries in the argument order the verifier calls it with:
   (attnum, key a, key b, category a, category b).  Negative, zero or
   positive; the categories are ordered after the keys of the normal
   category. *)
ginCompareEntries(attnum, a, b, categorya, categoryb) ==
    IF categorya # categoryb
    THEN (IF categorya < categoryb THEN -1 ELSE 1)
    ELSE IF categorya # GIN_CAT_NORM_KEY THEN 0
    ELSE IF a < b THEN -1
    ELSE IF a = b THEN 0
    ELSE 1

gintuple_get_key(itup) == itup.key

gintuple_get_category(itup) == itup.category

gintuple_get_attrnum(itup) == itup.attnum

Reverse(s) == [n \in 1 .. Len(s) |-> s[Len(s) + 1 - n]]

RemoveLast(s, b) ==
    LET ks == {n \in 1 .. Len(s) : s[n] = b}
        k == CHOOSE n \in ks : \A m \in ks : m <= n
    IN  IF ks = {} THEN s
        ELSE SubSeq(s, 1, k - 1) \o SubSeq(s, k + 1, Len(s))

-----------------------------------------------------------------------------
(* Outcomes and messages *)

NoResult == [kind |-> "none", msg |-> "", blk |-> InvalidBlockNumber, off |-> 0]

Success == [kind |-> "ok", msg |-> "", blk |-> InvalidBlockNumber, off |-> 0]

Error(kind, msg, blk, off) == [kind |-> kind, msg |-> msg, blk |-> blk, off |-> off]

Corrupted(msg, blk, off) == Error("structural-corruption", msg, blk, off)

Message(level, msg, blk, off) == [level |-> level, msg |-> msg, blk |-> blk, off |-> off]

-----------------------------------------------------------------------------
(* The scan items of the two walkers *)

GinScanItem(depth, parenttup, parentblk, parentlsn, blkno) ==
    [depth |-> depth, parenttup |-> parenttup, parentblk |-> parentblk,
     parentlsn |-> parentlsn, blkno |-> blkno]

GinPostingTreeScanItem(depth, parenttup, parentblk, blkno) ==
    [depth |-> depth, parenttup |-> parenttup, parentblk |-> parentblk,
     blkno |-> blkno]

(* ptr->next = stack->next; stack->next = ptr *)
PushAfterHead(stk, ptr) == <<Head(stk)>> \o <<ptr>> \o Tail(stk)

-----------------------------------------------------------------------------
(* An eligibility test that leaves out the test of indisvalid. *)
gin_index_checkable_any_validity(r) ==
    IF ~r.relkind_index \/ ~r.relam_gin
    THEN Error("unsupported-target", "only GIN indexes are supported", InvalidBlockNumber, 0)
    ELSE IF r.other_temp
    THEN Error("unsupported-target", "temporary table of other session", InvalidBlockNumber, 0)
    ELSE NoResult

-----------------------------------------------------------------------------
(* gin_index_checkable and amcheck_index_mainfork_expected *)

gin_index_checkable(r) ==
    IF ~r.relkind_index \/ ~r.relam_gin
    THEN Error("unsupported-target", "only GIN indexes are supported", InvalidBlockNumber, 0)
    ELSE IF r.other_temp
    THEN Error("unsupported-target", "temporary table of other session", InvalidBlockNumber, 0)
    ELSE IF ~r.indisvalid
    THEN Error("unsupported-target", "cannot check index", InvalidBlockNumber, 0)
    ELSE NoResult

amcheck_index_mainfork_expected(r) == r.mainfork

Relations ==
    [relkind_index : BOOLEAN, relam_gin : BOOLEAN, other_temp : BOOLEAN,
     indisvalid : BOOLEAN, mainfork : BOOLEAN]

GinIndexRel ==
    [relkind_index |-> TRUE, relam_gin |-> TRUE, other_temp |-> FALSE,
     indisvalid |-> TRUE, mainfork |-> TRUE]

-----------------------------------------------------------------------------
(* A page test that leaves out the tuple count of a deleted page. *)
check_index_page_without_count(page, blockNo) ==
    IF ~page.hdrok
    THEN Corrupted("page header check failed", blockNo, 0)
    ELSE IF GinPageIsDeleted(page) /\ ~GinPageIsLeaf(page)
    THEN Corrupted("deleted internal page", blockNo, 0)
    ELSE IF ~GinPageIsDeleted(page)
            /\ PageGetMaxOffsetNumber(page) > MaxIndexTuplesPerPage
    THEN Corrupted("page with exceeding count of tuples", blockNo, 0)
    ELSE NoResult

(* check_index_page: gincheckpage, then the deleted-page and density tests.
   The result is the error raised, or NoResult. *)
check_index_page(page, blockNo) ==
    IF ~page.hdrok
    THEN Corrupted("page header check failed", blockNo, 0)
    ELSE IF GinPageIsDeleted(page)
    THEN IF ~GinPageIsLeaf(page)
         THEN Corrupted("deleted internal page", blockNo, 0)
         ELSE IF PageGetMaxOffsetNumber(page) > InvalidOffsetNumber
         THEN Corrupted("deleted page with tuples", blockNo, 0)
         ELSE NoResult
    ELSE IF PageGetMaxOffsetNumber(page) > MaxIndexTuplesPerPage
    THEN Corrupted("page with exceeding count of tuples", blockNo, 0)
    ELSE NoResult

(* The test of the concurrent-split adjustment (lines 407-408). *)
SplitDetected(page, page_max, parenttup) ==
    /\ page.rightlink # InvalidBlockNumber
    /\ ginCompareEntries(gintuple_get_attrnum(page_max),
                         gintuple_get_key(page_max), gintuple_get_key(parenttup),
                         gintuple_get_category(page_max),
                         gintuple_get_category(parenttup)) <= 0

(* A leaf-depth test that records the depth of the first leaf and accepts a
   leaf at any other depth. *)
LeafDepthFirstOnly(page, depth, ld) ==
    IF GinPageIsLeaf(page) /\ ld = NoLeafDepth
    THEN [err |-> FALSE, depth |-> depth]
    ELSE [err |-> FALSE, depth |-> ld]

(* The leaf-depth test of both walkers: whether it raises, and the
   leafdepth after it. *)
LeafDepthCheck(page, depth, ld) ==
    IF GinPageIsLeaf(page)
    THEN IF ld = NoLeafDepth THEN [err |-> FALSE, depth |-> depth]
         ELSE IF depth # ld THEN [err |-> TRUE, depth |-> ld]
         ELSE [err |-> FALSE, depth |-> ld]
    ELSE [err |-> FALSE, depth |-> ld]

(* The order test of the intra-page scan (line 460). *)
WrongTupleOrder(prev_tuple, idxtuple) ==
    ginCompareEntries(gintuple_get_attrnum(idxtuple),
                      gintuple_get_key(prev_tuple), gintuple_get_key(idxtuple),
                      gintuple_get_category(prev_tuple),
                      gintuple_get_category(idxtuple)) <= 0

(* The size test of the intra-page scan (line 446). *)
InconsistentTupleSize(idxtuple) ==
    MAXALIGN(idxtuple.lplen) # MAXALIGN(idxtuple.tupsize)

(* A parent/child key test that lets a child key equal to the parent key
   pass. *)
ParentDiscrepancyStrict(idxtuple, parenttup) ==
    ginCompareEntries(gintuple_get_attrnum(idxtuple),
                      gintuple_get_key(idxtuple), gintuple_get_key(parenttup),
                      gintuple_get_category(idxtuple),
                      gintuple_get_category(parenttup)) < 0

(* The parent/child key test (lines 477 and 497). *)
ParentDiscrepancy(idxtuple, parenttup) ==
    ginCompareEntries(gintuple_get_attrnum(idxtuple),
                      gintuple_get_key(idxtuple), gintuple_get_key(parenttup),
                      gintuple_get_category(idxtuple),
                      gintuple_get_category(parenttup)) <= 0

(* Whether the parent/child key test is made for the tuple at offset off. *)
ParentCheckApplies(frame, off, maxoff) ==
    frame.parenttup # NoTup /\ off = maxoff

(* A re-find that returns the last tuple of the parent page whose downlink
   is childblkno. *)
gin_refind_parent_last(idx, parentblkno, childblkno) ==
    LET parentpage == idx[parentblkno]
        hits == {o \in 1 .. PageGetMaxOffsetNumber(parentpage) :
                    parentpage.tups[o].tid = childblkno}
    IN  IF GinPageIsLeaf(parentpage) \/ hits = {} THEN NoTup
        ELSE parentpage.tups[CHOOSE o \in hits : \A o2 \in hits : o2 <= o]

(* gin_refind_parent: the first tuple of the parent page whose downlink is
   childblkno, NoTup if the parent is a leaf or has no such tuple. *)
gin_refind_parent(idx, parentblkno, childblkno) ==
    LET parentpage == idx[parentblkno]
        hits == {o \in 1 .. PageGetMaxOffsetNumber(parentpage) :
                    parentpage.tups[o].tid = childblkno}
    IN  IF GinPageIsLeaf(parentpage) \/ hits = {} THEN NoTup
        ELSE parentpage.tups[CHOOSE o \in hits : \A o2 \in hits : o <= o2]

(* ginReadTupleWithoutState: the decoded item pointers and *nitems, or the
   error of a count that differs from the decoded count. *)
ginReadTupleWithoutState(itup) ==
    LET nipd == GinGetNPosting(itup)
    IN  IF GinItupIsCompressed(itup)
        THEN IF nipd > 0
             THEN [mismatch |-> nipd # Len(itup.ipd), nitems |-> nipd, ipd |-> itup.ipd]
             ELSE [mismatch |-> FALSE, nitems |-> nipd, ipd |-> <<>>]
        ELSE [mismatch |-> FALSE, nitems |-> nipd, ipd |-> SubSeq(itup.ipd, 1, nipd)]

(* A heap-pointer test without the negation. *)
HeapPointerOffsetIsValid(ipd, nipd) ==
    OffsetNumberIsValid(ItemPointerGetOffsetNumberNoCheck(ipd[nipd]))

(* The test of validate_leaf on the last decoded item pointer (line 325). *)
InvalidHeapPointer(ipd, nipd) ==
    ~OffsetNumberIsValid(ItemPointerGetOffsetNumberNoCheck(ipd[nipd]))

(* The block in whose buffer the parent tuple of a scan item of the entry
   walker lies: none, the tuple is a palloc'd copy (CopyIndexTuple at lines
   417, 517 and 610). *)
EntryParentBuffer(frame) == InvalidBlockNumber

(* The block in whose buffer the parent item of a scan item of the
   posting-tree walker lies.  Line 275 stores posting_item, the address
   GinDataPageGetPostingItem gave at line 236 for the page of the parent
   block; no copy is made. *)
PostingParentBuffer(frame) ==
    IF frame.parenttup = NoTup THEN InvalidBlockNumber ELSE frame.parentblk

(* Line 237: a posting item the loop of the posting-tree walker skips. *)
SkippedPostingItem(posting_item) ==
    \/ ItemPointerGetBlockNumberNoCheck(posting_item.key) = 0
    \/ ItemPointerGetOffsetNumberNoCheck(posting_item.key) = 0

(* The scan items the loop of the posting-tree walker pushes for a page,
   in the order of the list after the loop. *)
RECURSIVE PostingPushes(_, _, _)
PostingPushes(frame, page, off) ==
    IF off > PageGetMaxOffsetNumber(page) THEN <<>>
    ELSE LET posting_item == page.tups[off]
             rest == PostingPushes(frame, page, off + 1)
         IN  IF GinPageIsLeaf(page) \/ SkippedPostingItem(posting_item)
             THEN rest
             ELSE rest \o <<GinPostingTreeScanItem(frame.depth + 1, posting_item,
                                                   frame.blkno,
                                                   posting_item.child_blkno)>>

-----------------------------------------------------------------------------
(* The verifier *)

(* What reading the tuple at offset 0 of a page without tuples can give
   (line 401, maxoff = 0): the line-pointer error of PageGetItemIdCareful,
   or whatever bytes are there read as a tuple. *)
GarbageReads ==
    {[err |-> TRUE, key |-> 0]} \cup {[err |-> FALSE, key |-> k] : k \in Keys}

NoGarbage == [err |-> FALSE, key |-> 0]

(* gin_index_parent_check up to the first iteration of the entry walker. *)
Start ==
    /\ pc = "start"
    /\ LET err == gin_index_checkable(rel)
       IN  IF err # NoResult
           THEN /\ result' = err
                /\ pc' = "done"
                /\ UNCHANGED <<stack, leafdepth>>
           ELSE IF ~amcheck_index_mainfork_expected(rel)
           THEN /\ result' = Success
                /\ pc' = "done"
                /\ UNCHANGED <<stack, leafdepth>>
           ELSE /\ stack' = <<GinScanItem(0, NoTup, InvalidBlockNumber,
                                          InvalidXLogRecPtr, GIN_ROOT_BLKNO)>>
                /\ leafdepth' = NoLeafDepth
                /\ pc' = "top"
                /\ UNCHANGED result
    /\ UNCHANGED <<index, i, j, ptstack, ptleafdepth, held, out, visited, oob,
                   nread, rel, cancel, splits, first>>

(* Lines 372-389: the loop test, CHECK_FOR_INTERRUPTS, the read and shared
   lock of stack->blkno, and check_index_page. *)
EntryLoop ==
    /\ pc = "top"
    /\ IF stack = <<>>
       THEN /\ result' = Success
            /\ pc' = "done"
            /\ UNCHANGED <<held, visited, nread>>
       ELSE IF cancel
       THEN /\ result' = Error("cancelled", "canceling statement", InvalidBlockNumber, 0)
            /\ pc' = "done"
            /\ UNCHANGED <<held, visited, nread>>
       ELSE LET frame == Head(stack)
                err == check_index_page(index[frame.blkno], frame.blkno)
            IN  /\ held' = Append(held, frame.blkno)
                /\ visited' = visited \cup {frame.blkno}
                /\ nread' = 0
                /\ IF err # NoResult
                   THEN result' = err /\ pc' = "done"
                   ELSE pc' = "adjust" /\ UNCHANGED result
    /\ UNCHANGED <<index, stack, leafdepth, i, j, ptstack, ptleafdepth, out, oob,
                   rel, cancel, splits, first>>

(* Lines 391-438: the concurrent-split adjustment and the leaf-depth test. *)
SplitAdjust ==
    /\ pc = "adjust"
    /\ nread' = nread + (IF Head(stack).parenttup # NoTup THEN 1 ELSE 0)
    /\ LET frame == Head(stack)
           page == index[frame.blkno]
           maxoff == PageGetMaxOffsetNumber(page)
       IN  \E g \in (IF frame.parenttup # NoTup /\ maxoff = 0
                     THEN GarbageReads ELSE {NoGarbage}) :
             IF g.err
             THEN /\ result' = Corrupted("invalid line pointer", frame.blkno, maxoff)
                  /\ pc' = "done"
                  /\ UNCHANGED <<stack, leafdepth, i, out>>
             ELSE LET page_max == IF maxoff = 0 THEN DownTup(g.key, InvalidBlockNumber)
                                  ELSE page.tups[maxoff]
                      split == /\ frame.parenttup # NoTup
                               /\ SplitDetected(page, page_max, frame.parenttup)
                      stk == IF split
                             THEN PushAfterHead(stack,
                                      GinScanItem(frame.depth, frame.parenttup,
                                                  frame.parentblk, frame.parentlsn,
                                                  page.rightlink))
                             ELSE stack
                      msgs == IF split
                              THEN Append(out, Message("INFO", "split detected",
                                                       frame.blkno, 0))
                              ELSE out
                      ld == LeafDepthCheck(page, frame.depth, leafdepth)
                  IN  /\ stack' = stk
                      /\ out' = msgs
                      /\ IF ld.err
                         THEN /\ result' = Corrupted("leaf page at unexpected depth",
                                                     frame.blkno, 0)
                              /\ pc' = "done"
                              /\ UNCHANGED <<leafdepth, i>>
                         ELSE /\ leafdepth' = ld.depth
                              /\ i' = FirstOffsetNumber
                              /\ pc' = "scan"
                              /\ UNCHANGED result
    /\ UNCHANGED <<index, j, ptstack, ptleafdepth, held, visited, oob, rel,
                   cancel, splits, first>>

(* A scan that releases the page when the scan of its tuples is over, but
   never steps to the next item of the queue. *)
ScanTupleKeepingItem ==
    /\ pc = "scan"
    /\ LET frame == Head(stack)
           page == index[frame.blkno]
           maxoff == PageGetMaxOffsetNumber(page)
       IN  IF i > maxoff
           THEN /\ held' = RemoveLast(held, frame.blkno)
                /\ stack' = stack
                /\ pc' = "scan"
                /\ UNCHANGED <<result, nread>>
           ELSE LET idxtuple == page.tups[i]
                IN  /\ UNCHANGED <<held, stack>>
                    /\ nread' = nread + 1
                    /\ IF InconsistentTupleSize(idxtuple)
                       THEN /\ result' = Corrupted("inconsistent tuple sizes",
                                                   frame.blkno, i)
                            /\ pc' = "done"
                       ELSE IF i # FirstOffsetNumber
                               /\ WrongTupleOrder(page.tups[i - 1], idxtuple)
                       THEN /\ result' = Corrupted("wrong tuple order", frame.blkno, i)
                            /\ pc' = "done"
                       ELSE IF ParentCheckApplies(frame, i, maxoff)
                               /\ ParentDiscrepancy(idxtuple, frame.parenttup)
                       THEN pc' = "refind" /\ UNCHANGED result
                       ELSE pc' = "descend" /\ UNCHANGED result
    /\ UNCHANGED <<index, leafdepth, i, j, ptstack, ptleafdepth, out, visited, oob,
                   rel, cancel, splits, first>>

(* Lines 440-478 for the tuple at offset i, and lines 531-539 after the last:
   the size test, the order test and the first parent/child key test. *)
ScanTuple ==
    /\ pc = "scan"
    /\ LET frame == Head(stack)
           page == index[frame.blkno]
           maxoff == PageGetMaxOffsetNumber(page)
       IN  IF i > maxoff
           THEN /\ held' = RemoveLast(held, frame.blkno)
                /\ stack' = Tail(stack)
                /\ pc' = "top"
                /\ UNCHANGED <<result, nread>>
           ELSE LET idxtuple == page.tups[i]
                IN  /\ UNCHANGED <<held, stack>>
                    /\ nread' = nread + 1
                    /\ IF InconsistentTupleSize(idxtuple)
                       THEN /\ result' = Corrupted("inconsistent tuple sizes",
                                                   frame.blkno, i)
                            /\ pc' = "done"
                       ELSE IF i # FirstOffsetNumber
                               /\ WrongTupleOrder(page.tups[i - 1], idxtuple)
                       THEN /\ result' = Corrupted("wrong tuple order", frame.blkno, i)
                            /\ pc' = "done"
                       ELSE IF ParentCheckApplies(frame, i, maxoff)
                               /\ ParentDiscrepancy(idxtuple, frame.parenttup)
                       THEN pc' = "refind" /\ UNCHANGED result
                       ELSE pc' = "descend" /\ UNCHANGED result
    /\ UNCHANGED <<index, leafdepth, i, j, ptstack, ptleafdepth, out, visited, oob,
                   rel, cancel, splits, first>>

(* A re-find that stamps the parent page it locks, as a writer would. *)
RefindLockStamping ==
    /\ pc = "refind"
    /\ held' = Append(held, Head(stack).parentblk)
    /\ index' = [index EXCEPT ![Head(stack).parentblk].lsn = @ + 1]
    /\ pc' = "refound"
    /\ UNCHANGED <<stack, leafdepth, i, j, ptstack, ptleafdepth, out, result,
                   visited, oob, rel, cancel, splits, nread, first>>

(* Lines 589-593: gin_refind_parent reads and locks the parent page. *)
RefindLock ==
    /\ pc = "refind"
    /\ held' = Append(held, Head(stack).parentblk)
    /\ pc' = "refound"
    /\ UNCHANGED <<index, stack, leafdepth, i, j, ptstack, ptleafdepth, out, result,
                   visited, oob, rel, cancel, splits, nread, first>>

(* A re-find outcome that treats a parent tuple that is not found as
   corruption. *)
RefindScanAborting ==
    /\ pc = "refound"
    /\ LET frame == Head(stack)
           idxtuple == index[frame.blkno].tups[i]
           found == gin_refind_parent(index, frame.parentblk, frame.blkno)
       IN  /\ held' = RemoveLast(held, frame.parentblk)
           /\ stack' = [stack EXCEPT ![1].parenttup = found]
           /\ IF found = NoTup \/ ParentDiscrepancy(idxtuple, found)
              THEN /\ result' = Corrupted("inconsistent records", frame.blkno, i)
                   /\ pc' = "done"
                   /\ UNCHANGED out
              ELSE /\ pc' = "descend"
                   /\ UNCHANGED <<out, result>>
    /\ UNCHANGED <<index, leafdepth, i, j, ptstack, ptleafdepth, visited, oob, rel,
                   cancel, splits, nread, first>>

(* Lines 595-617 and 491-508: the search of the parent page, its release,
   and the second parent/child key test. *)
RefindScan ==
    /\ pc = "refound"
    /\ LET frame == Head(stack)
           idxtuple == index[frame.blkno].tups[i]
           found == gin_refind_parent(index, frame.parentblk, frame.blkno)
       IN  /\ held' = RemoveLast(held, frame.parentblk)
           /\ stack' = [stack EXCEPT ![1].parenttup = found]
           /\ IF found = NoTup
              THEN /\ out' = Append(out, Message("NOTICE", "unable to find parent tuple",
                                                 frame.blkno, 0))
                   /\ pc' = "descend"
                   /\ UNCHANGED result
              ELSE IF ParentDiscrepancy(idxtuple, found)
              THEN /\ result' = Corrupted("inconsistent records", frame.blkno, i)
                   /\ pc' = "done"
                   /\ UNCHANGED out
              ELSE /\ pc' = "descend"
                   /\ UNCHANGED <<out, result>>
    /\ UNCHANGED <<index, leafdepth, i, j, ptstack, ptleafdepth, visited, oob, rel,
                   cancel, splits, nread, first>>

(* Lines 511-528: push the child of an internal tuple, or call validate_leaf. *)
Descend ==
    /\ pc = "descend"
    /\ LET frame == Head(stack)
           page == index[frame.blkno]
           idxtuple == page.tups[i]
       IN  IF ~GinPageIsLeaf(page)
           THEN /\ stack' = PushAfterHead(stack,
                                GinScanItem(frame.depth + 1, idxtuple, frame.blkno,
                                            page.lsn, idxtuple.tid))
                /\ i' = i + 1
                /\ pc' = "scan"
                /\ UNCHANGED j
           ELSE /\ j' = FirstOffsetNumber
                /\ pc' = "vleaf"
                /\ UNCHANGED <<stack, i>>
    /\ UNCHANGED <<index, leafdepth, ptstack, ptleafdepth, held, out, result, visited,
                   oob, rel, cancel, splits, nread, first>>

(* Lines 311-333: one iteration of the loop of validate_leaf, up to the call
   of the posting-tree walker; after the loop, the rest of lines 524-528. *)
ValidateLeaf ==
    /\ pc = "vleaf"
    /\ nread' = nread + (IF j > PageGetMaxOffsetNumber(index[Head(stack).blkno])
                         THEN 0 ELSE 1)
    /\ LET frame == Head(stack)
           page == index[frame.blkno]
           maxoff == PageGetMaxOffsetNumber(page)
       IN  IF j > maxoff
           THEN /\ i' = i + 1
                /\ pc' = "scan"
                /\ UNCHANGED <<j, ptstack, ptleafdepth, out, result, oob>>
           ELSE LET idxtuple == page.tups[j]
                    read == ginReadTupleWithoutState(idxtuple)
                IN  IF GinIsPostingTree(idxtuple)
                    THEN /\ out' = Append(out, Message("INFO", "validating posting tree",
                                                       frame.blkno, j))
                         /\ ptstack' = <<GinPostingTreeScanItem(0, NoTup,
                                             InvalidBlockNumber,
                                             GinGetPostingTree(idxtuple))>>
                         /\ ptleafdepth' = NoLeafDepth
                         /\ pc' = "pt"
                         /\ UNCHANGED <<i, j, result, oob>>
                    ELSE /\ out' = Append(out, Message("INFO", "validating posting list",
                                                       frame.blkno, j))
                         /\ UNCHANGED <<i, ptstack, ptleafdepth>>
                         /\ IF read.mismatch
                            THEN /\ result' = Error("decoding-mismatch",
                                                    "number of items mismatch",
                                                    frame.blkno, j)
                                 /\ pc' = "done"
                                 /\ UNCHANGED <<j, oob>>
                            ELSE \E invalid \in (IF read.nitems = 0 THEN BOOLEAN
                                                 ELSE {InvalidHeapPointer(read.ipd,
                                                                          read.nitems)}) :
                                   /\ oob' = (oob \/ read.nitems = 0)
                                   /\ IF invalid
                                      THEN /\ result' = Corrupted("invalid heap pointer",
                                                                  frame.blkno, j)
                                           /\ pc' = "done"
                                           /\ UNCHANGED j
                                      ELSE /\ j' = j + 1
                                           /\ UNCHANGED <<pc, result>>
    /\ UNCHANGED <<index, stack, leafdepth, held, visited, rel, cancel, splits,
                   first>>

(* A loop head of the posting-tree walker without CHECK_FOR_INTERRUPTS. *)
PostingLoopUninterruptible ==
    /\ pc = "pt"
    /\ IF ptstack = <<>>
       THEN /\ j' = j + 1
            /\ pc' = "vleaf"
            /\ UNCHANGED <<held, visited>>
       ELSE /\ held' = Append(held, Head(ptstack).blkno)
            /\ visited' = visited \cup {Head(ptstack).blkno}
            /\ pc' = "ptscan"
            /\ UNCHANGED j
    /\ UNCHANGED <<index, stack, leafdepth, i, ptstack, ptleafdepth, out, result,
                   oob, rel, cancel, splits, nread, first>>

(* Lines 192-205 of the posting-tree walker: the loop test,
   CHECK_FOR_INTERRUPTS, and the read and shared lock of stack->blkno; after
   the loop, the return to validate_leaf. *)
PostingLoop ==
    /\ pc = "pt"
    /\ IF ptstack = <<>>
       THEN /\ j' = j + 1
            /\ pc' = "vleaf"
            /\ UNCHANGED <<held, visited, result>>
       ELSE IF cancel
       THEN /\ result' = Error("cancelled", "canceling statement", InvalidBlockNumber, 0)
            /\ pc' = "done"
            /\ UNCHANGED <<j, held, visited>>
       ELSE /\ held' = Append(held, Head(ptstack).blkno)
            /\ visited' = visited \cup {Head(ptstack).blkno}
            /\ pc' = "ptscan"
            /\ UNCHANGED <<j, result>>
    /\ UNCHANGED <<index, stack, leafdepth, i, ptstack, ptleafdepth, out, oob, rel,
                   cancel, splits, nread, first>>

(* Lines 207-300: the leaf-depth test, the loop over the posting items, the
   release of the page and the step to the next scan item. *)
PostingScan ==
    /\ pc = "ptscan"
    /\ LET frame == Head(ptstack)
           page == index[frame.blkno]
           ld == LeafDepthCheck(page, frame.depth, ptleafdepth)
       IN  IF ld.err
           THEN /\ result' = Corrupted("leaf page at unexpected depth", frame.blkno, 0)
                /\ pc' = "done"
                /\ UNCHANGED <<ptstack, ptleafdepth, held>>
           ELSE /\ ptleafdepth' = ld.depth
                /\ ptstack' = PostingPushes(frame, page, FirstOffsetNumber)
                                \o Tail(ptstack)
                /\ held' = RemoveLast(held, frame.blkno)
                /\ pc' = "pt"
                /\ UNCHANGED result
    /\ UNCHANGED <<index, stack, leafdepth, i, j, out, visited, oob, rel, cancel,
                   splits, nread, first>>

-----------------------------------------------------------------------------
(* The indexes the verifier is run on.  Each family varies one part of the
   index and keeps the rest fixed. *)

ChildBlocks == {2, 3}

(* The entry block below the pages 2 and 3: the highest one. *)
GrandChildBlock == CHOOSE b \in EntryBlocks : \A c \in EntryBlocks : c <= b

(* The root of the posting tree: the lowest data block. *)
PostingRoot == CHOOSE b \in DataBlocks : \A c \in DataBlocks : b <= c

PostingChildren == {6, 7}

InlinePointers == {<<1, 0>>, <<1, 1>>}

Pages(root, p2, p3, p4, p5, p6, p7) ==
    [b \in Blocks |->
        CASE b = GIN_ROOT_BLKNO -> root
          [] b = 2 -> p2
          [] b = 3 -> p3
          [] b = 4 -> p4
          [] b = 5 -> p5
          [] b = 6 -> p6
          [] OTHER -> p7]

LeafTups(ks) == [n \in 1 .. Len(ks) |-> LeafTup(ks[n], ValidPosting)]

DownTups(ks, b) == [n \in 1 .. Len(ks) |-> DownTup(ks[n], b)]

(* A root page of either kind, deleted or not, with a good or a bad page
   header, holding up to one tuple more than the per-page maximum. *)
FamRoot(idx) ==
    \E lf \in BOOLEAN, del \in BOOLEAN, h \in BOOLEAN,
       ks \in SeqsUpTo(Keys, MaxIndexTuplesPerPage + 1) :
        idx = Pages([EntryPage(lf, del, InvalidBlockNumber,
                               IF lf THEN LeafTups(ks) ELSE DownTups(ks, 2))
                        EXCEPT !.hdrok = h],
                    EmptyLeaf, EmptyLeaf, EmptyLeaf,
                    DataLeaf(<<>>), DataLeaf(<<>>), DataLeaf(<<>>))

(* The entry pages below the root: a leaf with up to the per-page maximum
   of tuples, or an internal page with at most one downlink, to page 4. *)
ChildPages(rl) ==
    {EntryPage(TRUE, FALSE, rl, LeafTups(ks)) :
        ks \in SeqsUpTo(Keys, MaxIndexTuplesPerPage)}
    \cup {EntryPage(FALSE, FALSE, rl, DownTups(ks, GrandChildBlock)) :
            ks \in SeqsUpTo(Keys, 1)}

(* An internal root over the entry pages 2 and 3; page 2 may have page 3 as
   its right sibling, page 3 holds at most one tuple or is a deleted leaf. *)
FamTree(idx) ==
    \E ds \in SeqsUpTo(Keys \X ChildBlocks, Cardinality(ChildBlocks)),
       p2 \in ChildPages(InvalidBlockNumber) \cup ChildPages(3),
       p3 \in {p \in ChildPages(InvalidBlockNumber) : Len(p.tups) <= 1}
              \cup {EntryPage(TRUE, TRUE, InvalidBlockNumber, <<>>)} :
        idx = Pages(EntryPage(FALSE, FALSE, InvalidBlockNumber,
                              [n \in 1 .. Len(ds) |-> DownTup(ds[n][1], ds[n][2])]),
                    p2, p3,
                    EntryPage(TRUE, FALSE, InvalidBlockNumber, LeafTups(<<1>>)),
                    DataLeaf(<<>>), DataLeaf(<<>>), DataLeaf(<<>>))

(* The payloads of a leaf entry tuple: inline lists in both encodings, a
   compressed list whose header count is one more than the list decodes
   to, and the reference to the posting tree. *)
InlinePostings ==
    {Posting(c, Len(l), l) : c \in BOOLEAN, l \in SeqsUpTo(InlinePointers, MaxItems)}
    \cup {Posting(TRUE, Len(l) + 1, l) : l \in SeqsUpTo(InlinePointers, MaxItems)}

PayloadTups(k) ==
    {LeafTup(k, p) : p \in InlinePostings} \cup {TreeTup(k, PostingRoot)}

(* A leaf root with one or two tuples, in either key order, whose first
   tuple carries any payload; the posting tree is the single leaf 5. *)
FamPayload(idx) ==
    \E t \in UNION {PayloadTups(k) : k \in {1, MaxKey}},
       us \in {<<>>, <<LeafTup(1, ValidPosting)>>, <<LeafTup(MaxKey, ValidPosting)>>,
               <<TreeTup(1, PostingRoot)>>} :
        idx = Pages(EntryPage(TRUE, FALSE, InvalidBlockNumber, <<t>> \o us),
                    EmptyLeaf, EmptyLeaf, EmptyLeaf,
                    DataLeaf(<<<<1, 1>>>>), DataLeaf(<<>>), DataLeaf(<<>>))

(* A leaf root with one tuple whose line-pointer length varies. *)
FamSize(idx) ==
    \E len \in {12, 16, 24} :
        idx = Pages(EntryPage(TRUE, FALSE, InvalidBlockNumber,
                              <<[LeafTup(1, ValidPosting) EXCEPT !.lplen = len]>>),
                    EmptyLeaf, EmptyLeaf, EmptyLeaf,
                    DataLeaf(<<>>), DataLeaf(<<>>), DataLeaf(<<>>))

PostingKeys == {<<0, 0>>, <<0, 1>>, <<1, 1>>}

HeapPointers == {<<1, 1>>, <<1, 2>>}

(* A leaf root whose tuples refer to posting trees over the data pages 5, 6
   and 7: page 5 and page 6 are leaves or internal pages, page 7 is a leaf. *)
FamPostingTree(idx) ==
    \E ts \in {<<TreeTup(1, PostingRoot)>>,
               <<TreeTup(MaxKey, PostingRoot), TreeTup(1, 6)>>},
       p5 \in {DataLeaf(l) : l \in SeqsUpTo(HeapPointers, 2)}
              \cup {DataPage(FALSE, InvalidBlockNumber, its) :
                       its \in SeqsUpTo({PostingItem(k, c) :
                                           k \in PostingKeys, c \in PostingChildren}, 2)},
       p6 \in {DataLeaf(<<>>), DataLeaf(<<<<1, 1>>>>),
               DataPage(FALSE, InvalidBlockNumber, <<>>),
               DataPage(FALSE, InvalidBlockNumber, <<PostingItem(<<1, 1>>, 7)>>),
               DataPage(FALSE, InvalidBlockNumber, <<PostingItem(<<0, 0>>, 7)>>)},
       l7 \in {<<<<1, 1>>>>, <<<<1, 2>>, <<1, 1>>>>} :
        idx = Pages(EntryPage(TRUE, FALSE, InvalidBlockNumber, ts),
                    EmptyLeaf, EmptyLeaf, EmptyLeaf, p5, p6, DataLeaf(l7))

-----------------------------------------------------------------------------
(* The specification of one call on an index nobody changes *)

InitVerifier ==
    /\ pc = "start"
    /\ stack = <<>>
    /\ leafdepth = NoLeafDepth
    /\ i = 0
    /\ j = 0
    /\ ptstack = <<>>
    /\ ptleafdepth = NoLeafDepth
    /\ held = <<>>
    /\ out = <<>>
    /\ result = NoResult
    /\ visited = {}
    /\ oob = FALSE
    /\ nread = 0
    /\ first = NoCall
    /\ cancel = FALSE
    /\ splits = {}

Init ==
    /\ InitVerifier
    /\ \/ FamRoot(index) /\ rel = GinIndexRel
       \/ FamTree(index) /\ rel = GinIndexRel
       \/ FamPayload(index) /\ rel = GinIndexRel
       \/ FamPostingTree(index) /\ rel = GinIndexRel
       \/ FamSize(index) /\ rel \in Relations

Next ==
    \/ Start
    \/ EntryLoop
    \/ SplitAdjust
    \/ ScanTuple
    \/ RefindLock
    \/ RefindScan
    \/ Descend
    \/ ValidateLeaf
    \/ PostingLoop
    \/ PostingScan

Spec == Init /\ [][Next]_vars

-----------------------------------------------------------------------------
(* The structure of an index: what is reachable, and the invariants I1-I9 *)

Downlinks(page) == {page.tups[n].tid : n \in 1 .. Len(page.tups)}

PostingRoots(page) ==
    {page.tups[n].ptroot : n \in {m \in 1 .. Len(page.tups) : page.tups[m].ptree}}

PostingChildBlocks(page) == {page.tups[n].child_blkno : n \in 1 .. Len(page.tups)}

(* The blocks a page refers to: the downlinks of an internal entry page, the
   posting-tree roots of a leaf entry page, and the child blocks of all the
   posting items of an internal data page. *)
Successors(idx, b) ==
    LET page == idx[b]
    IN  IF page.data
        THEN (IF page.leaf THEN {} ELSE PostingChildBlocks(page))
        ELSE (IF page.leaf THEN PostingRoots(page) ELSE Downlinks(page))

RECURSIVE ReachableFrom(_, _)
ReachableFrom(idx, S) ==
    LET T == S \cup UNION {Successors(idx, b) : b \in S}
    IN  IF T = S THEN S ELSE ReachableFrom(idx, T)

Reachable(idx) == ReachableFrom(idx, {GIN_ROOT_BLKNO})

(* The depths at which leaf pages are met below block b, itself at depth d,
   following downlinks (entry pages) or child blocks (data pages). *)
RECURSIVE LeafDepths(_, _, _)
LeafDepths(idx, b, d) ==
    LET page == idx[b]
    IN  IF page.leaf THEN {d}
        ELSE UNION {LeafDepths(idx, c, d + 1) :
                       c \in IF page.data THEN PostingChildBlocks(page)
                             ELSE Downlinks(page)}

ItemPointerLess(a, b) == a[1] < b[1] \/ (a[1] = b[1] /\ a[2] < b[2])

StrictlyAscending(l) == \A n \in 1 .. Len(l) - 1 : ItemPointerLess(l[n], l[n + 1])

KeyLess(t, u) ==
    ginCompareEntries(u.attnum, t.key, u.key, t.category, u.category) < 0

KeyLessOrEqual(t, u) ==
    ginCompareEntries(u.attnum, t.key, u.key, t.category, u.category) <= 0

EntryPageValid(idx, b) ==
    LET page == idx[b]
        n == Len(page.tups)
    IN  /\ ~page.data /\ page.hdrok
        /\ page.deleted => (page.leaf /\ n = 0)                           \* I6
        /\ n <= MaxIndexTuplesPerPage                                      \* I8
        /\ ~page.leaf => n >= 1                                            \* I3
        /\ \A m \in 1 .. n :
             MAXALIGN(page.tups[m].lplen) = MAXALIGN(page.tups[m].tupsize) \* I7
        /\ \A m \in 1 .. n - 1 : KeyLess(page.tups[m], page.tups[m + 1])   \* I4
        /\ ~page.leaf =>
             /\ \A c \in Downlinks(page) : c \in EntryBlocks
             /\ \A c, c2 \in Downlinks(page) : idx[c].leaf = idx[c2].leaf  \* I2
             /\ \A m \in 1 .. n - 1 :            \* the children are siblings
                  idx[page.tups[m].tid].rightlink = page.tups[m + 1].tid
             /\ (idx[page.tups[n].tid].rightlink = InvalidBlockNumber)
                  <=> (page.rightlink = InvalidBlockNumber)
             /\ \A m \in 1 .. n :                                          \* I5
                  LET child == idx[page.tups[m].tid]
                  IN  (child.rightlink # InvalidBlockNumber /\ child.tups # <<>>)
                        => KeyLessOrEqual(child.tups[Len(child.tups)], page.tups[m])
        /\ page.leaf =>
             \A m \in 1 .. n :
                LET t == page.tups[m]
                IN  IF t.ptree
                    THEN /\ t.ptroot \in DataBlocks
                         /\ Cardinality(LeafDepths(idx, t.ptroot, 0)) = 1  \* I1
                    ELSE /\ t.nipd = Len(t.ipd) /\ t.nipd >= 1
                         /\ StrictlyAscending(t.ipd)                       \* I4
                         /\ t.ipd[t.nipd][2] # InvalidOffsetNumber         \* I9

DataPageValid(idx, b) ==
    LET page == idx[b]
        n == Len(page.tups)
    IN  /\ page.data /\ page.hdrok /\ ~page.deleted
        /\ IF page.leaf
           THEN /\ StrictlyAscending(page.tups)                            \* I4
                /\ n >= 1 => page.tups[n][2] # InvalidOffsetNumber         \* I9
           ELSE /\ n >= 1                                                  \* I3
                /\ \A c \in PostingChildBlocks(page) : c \in DataBlocks
                /\ \A c, c2 \in PostingChildBlocks(page) :
                     idx[c].leaf = idx[c2].leaf                            \* I2

(* I1-I9 on every page reachable from the root. *)
IndexValid(idx) ==
    /\ Cardinality(LeafDepths(idx, GIN_ROOT_BLKNO, 0)) = 1                 \* I1
    /\ \A b \in Reachable(idx) :
         IF b \in EntryBlocks THEN EntryPageValid(idx, b) ELSE DataPageValid(idx, b)

Done == pc = "done"

Accepted == Done /\ result = Success

Raised(kind) == Done /\ result.kind = kind

-----------------------------------------------------------------------------
(* The specification of one call while a writer splits entry pages *)

RECURSIVE LinkedFrom(_, _)
(* The blocks some page refers to, by a downlink, a posting-tree root, a
   child block or a right link, starting from the blocks of S. *)
LinkedFrom(idx, S) ==
    LET T == S \cup UNION {Successors(idx, b)
                             \cup ({idx[b].rightlink} \ {InvalidBlockNumber}) : b \in S}
    IN  IF T = S THEN S ELSE LinkedFrom(idx, T)

FreeEntryBlocks(idx) == EntryBlocks \ LinkedFrom(idx, {GIN_ROOT_BLKNO})

Locked(b) == \E n \in 1 .. Len(held) : held[n] = b

(* The offset of the downlink to block b on the page. *)
DownlinkOffset(page, b) ==
    CHOOSE o \in 1 .. Len(page.tups) : page.tups[o].tid = b

Parents(idx, b) ==
    {pb \in EntryBlocks : ~idx[pb].leaf /\ ~idx[pb].deleted /\ b \in Downlinks(idx[pb])}

(* The writer splits the entry page p, which its downlink covers: the tuples
   after offset m move to the free block q, which becomes the right sibling
   of p and takes over its right link.  The page is locked exclusively, so
   the verifier holds no lock on it.  The split is recorded with whether
   the verifier had queued p, having read its parent but not yet p. *)
SplitPage(p, q, m) ==
    /\ pc # "done"
    /\ p \in (LinkedFrom(index, {GIN_ROOT_BLKNO}) \cap EntryBlocks) \ {GIN_ROOT_BLKNO}
    /\ q \in FreeEntryBlocks(index)
    /\ ~Locked(p)
    /\ ~index[p].deleted
    /\ m \in 1 .. Len(index[p].tups) - 1
    /\ \A pb \in Parents(index, p) :
          KeyLessOrEqual(index[p].tups[Len(index[p].tups)],
                         index[pb].tups[DownlinkOffset(index[pb], p)])
    /\ index' = [index EXCEPT
                   ![p] = [@ EXCEPT !.tups = SubSeq(@, 1, m),
                                    !.rightlink = q,
                                    !.lsn = @ + 1],
                   ![q] = [index[p] EXCEPT
                              !.tups = SubSeq(@, m + 1, Len(@)),
                              !.lsn = @ + 1]]
    /\ splits' = splits \cup
                   {[left |-> p, right |-> q, linked |-> FALSE,
                     queued |-> \E n \in 1 .. Len(stack) : stack[n].blkno = p]}
    /\ UNCHANGED <<pc, stack, leafdepth, i, j, ptstack, ptleafdepth, held, out,
                   result, visited, oob, nread, rel, cancel, first>>

(* The writer completes a split: in the parent, the downlink to the left
   page now points to the right page, and a downlink to the left page,
   keyed by the last key of the left page, is inserted before it. *)
InsertDownlink(s) ==
    /\ pc # "done"
    /\ ~s.linked
    /\ \E pb \in Parents(index, s.left) :
          LET parent == index[pb]
              o == DownlinkOffset(parent, s.left)
              old == parent.tups[o]
              leftpage == index[s.left]
              leftmax == leftpage.tups[Len(leftpage.tups)]
          IN  /\ ~Locked(pb)
              /\ Len(parent.tups) < MaxIndexTuplesPerPage
              /\ index' = [index EXCEPT
                             ![pb] = [@ EXCEPT
                                        !.tups = SubSeq(@, 1, o - 1)
                                                   \o <<[old EXCEPT !.key = leftmax.key],
                                                        [old EXCEPT !.tid = s.right]>>
                                                   \o SubSeq(@, o + 1, Len(@)),
                                        !.lsn = @ + 1]]
    /\ splits' = (splits \ {s}) \cup {[s EXCEPT !.linked = TRUE]}
    /\ UNCHANGED <<pc, stack, leafdepth, i, j, ptstack, ptleafdepth, held, out,
                   result, visited, oob, nread, rel, cancel, first>>

InitSplit ==
    /\ InitVerifier
    /\ rel = GinIndexRel
    /\ FamRoot(index) \/ FamTree(index) \/ FamPayload(index) \/ FamPostingTree(index)
    /\ IndexValid(index)

NextSplit ==
    \/ Next
    \/ \E p \in EntryBlocks, q \in EntryBlocks, m \in 1 .. MaxIndexTuplesPerPage :
          SplitPage(p, q, m)
    \/ \E s \in splits : InsertDownlink(s)

SpecSplit == InitSplit /\ [][NextSplit]_vars

-----------------------------------------------------------------------------
(* C1: on every static index that satisfies I1-I9 the call runs to
   completion and returns without raising an error. *)
C1_ValidIndexAccepted ==
    (Done /\ IndexValid(index) /\ rel = GinIndexRel) => result = Success

(* C2: when the call returns success, every page reachable from the root of
   the entry tree (through downlinks, posting-tree roots and the child
   blocks of posting items) has been visited. *)
C2_AcceptedVisitsAllReachable ==
    (Accepted /\ amcheck_index_mainfork_expected(rel))
        => Reachable(index) \subseteq visited

(* The pc values at which the tuple at offset i of the page on top of the
   stack has passed the size test and the order test of the scan. *)
PastOrderTest == {"refind", "refound", "descend", "vleaf", "pt", "ptscan"}

(* C3: the order error is raised at block b, offset o exactly when the key
   at offset o - 1 does not compare strictly below the key at offset o: an
   order error names such a pair, and a tuple after the first that passed
   the order test has a strictly greater key than the one before it. *)
C3_OrderErrorIffNotAscending ==
    /\ (Done /\ result.msg = "wrong tuple order")
          => /\ result.off > FirstOffsetNumber
             /\ ~KeyLess(index[result.blk].tups[result.off - 1],
                         index[result.blk].tups[result.off])
    /\ (pc \in PastOrderTest /\ i > FirstOffsetNumber)
          => KeyLess(index[Head(stack).blkno].tups[i - 1],
                     index[Head(stack).blkno].tups[i])

(* C4: on a static index the parent/child key test raises no error for a
   child page that has a right sibling and whose last key is less than or
   equal to the key of the downlink tuple it was reached through, and the
   test finds nothing to re-find for a child that is right-most. *)
C4_CoveredChildNotReported ==
    [][(pc = "refound" /\ pc' = "done")
          => LET frame == Head(stack)
                 child == index[frame.blkno]
             IN  /\ child.rightlink # InvalidBlockNumber
                 /\ ~KeyLessOrEqual(child.tups[Len(child.tups)], frame.parenttup)]_vars

(* The step of the entry walker that takes a leaf page through the
   leaf-depth test, and the same step of the posting-tree walker. *)
EntryLeafTested == pc = "adjust" /\ GinPageIsLeaf(index[Head(stack).blkno])

PostingLeafTested == pc = "ptscan" /\ GinPageIsLeaf(index[Head(ptstack).blkno])

(* C6: the leaf depth of the entry walker is set by the first leaf page that
   reaches the depth test and never changes afterwards; a leaf entry page at
   another depth raises structural-corruption naming its block; every walk
   of a posting tree starts with its own leaf depth unset, sets it at its
   first leaf, raises on a leaf at another depth, and neither walker writes
   the leaf depth of the other. *)
C6_UniformDepth ==
    [][/\ (leafdepth # NoLeafDepth /\ pc # "start") => leafdepth' = leafdepth
       /\ (EntryLeafTested /\ leafdepth = NoLeafDepth /\ pc' # "done")
             => leafdepth' = Head(stack).depth
       /\ (EntryLeafTested /\ leafdepth \notin {NoLeafDepth, Head(stack).depth})
             => /\ pc' = "done"
                /\ result'.kind = "structural-corruption"
                /\ result'.blk = Head(stack).blkno
       /\ (pc = "vleaf" /\ pc' = "pt")
             => ptleafdepth' = NoLeafDepth /\ Head(ptstack').depth = 0
       /\ (PostingLeafTested /\ ptleafdepth = NoLeafDepth)
             => ptleafdepth' = Head(ptstack).depth /\ pc' # "done"
       /\ (PostingLeafTested /\ ptleafdepth \notin {NoLeafDepth, Head(ptstack).depth})
             => /\ pc' = "done"
                /\ result' = Corrupted("leaf page at unexpected depth",
                                       Head(ptstack).blkno, 0)
       /\ pc \in {"pt", "ptscan"} => leafdepth' = leafdepth
       /\ pc \notin {"vleaf", "ptscan"} => ptleafdepth' = ptleafdepth]_vars

(* A leaf entry page met at a depth other than the one recorded by an
   earlier leaf has been reported. *)
C6_DepthErrorRaised ==
    /\ Done
    /\ result = Corrupted("leaf page at unexpected depth", result.blk, 0)
    /\ result.blk \in EntryBlocks
    /\ leafdepth \notin {NoLeafDepth, Head(stack).depth}

(* C7: a posting-tree leaf page the walker has visited and whose
   item-pointers are not strictly ascending is reported as
   structural-corruption naming that block; the call does not succeed. *)
C7_UnsortedPostingLeafReported ==
    Done => \A b \in visited :
               (index[b].data /\ index[b].leaf /\ ~StrictlyAscending(index[b].tups))
                  => (result.kind = "structural-corruption" /\ result.blk = b)

(* C8: the call does not return success after visiting an internal page,
   of the entry tree or of a posting tree, that holds no downlink. *)
C8_EmptyInternalReported ==
    Accepted => \A b \in visited :
                   ~(~index[b].leaf /\ ~index[b].deleted /\ index[b].tups = <<>>)

(* The three sanity conditions on an entry page: deleted and not a leaf,
   deleted and holding a tuple, not deleted and over the per-page maximum. *)
SanityViolated(page) ==
    \/ page.deleted /\ ~page.leaf
    \/ page.deleted /\ Len(page.tups) >= 1
    \/ ~page.deleted /\ Len(page.tups) > MaxIndexTuplesPerPage

SanityMessages ==
    {"deleted internal page", "deleted page with tuples", "page with exceeding count of tuples"}

(* The step in which the entry walker reads and locks the next page. *)
EntryPageAcquired == pc = "top" /\ stack # <<>> /\ ~cancel

(* C9: in the step that reads an entry page, a page that is deleted and not
   a leaf, or deleted with a tuple, or not deleted with more tuples than the
   per-page maximum, raises structural-corruption naming the block, with no
   tuple of the page read; a page with a good header that passes the three
   tests goes on to the scan with no error; and a sanity error is only ever
   reported for a page that fails one of the three tests. *)
C9_PageSanity ==
    /\ [][EntryPageAcquired
            => LET blkno == Head(stack).blkno
                   page == index[blkno]
               IN  /\ SanityViolated(page)
                         => /\ pc' = "done"
                            /\ result'.kind = "structural-corruption"
                            /\ result'.blk = blkno
                            /\ nread' = 0
                   /\ (~SanityViolated(page) /\ page.hdrok)
                         => pc' = "adjust" /\ result' = NoResult]_vars
    /\ [](result.msg \in SanityMessages
            => /\ SanityViolated(index[result.blk])
               /\ nread = 0)

(* A sanity error has been raised for a deleted leaf that holds a tuple. *)
C9_DeletedWithTuplesRaised ==
    /\ Done
    /\ result.kind = "structural-corruption"
    /\ result.msg \in SanityMessages
    /\ index[result.blk].deleted /\ index[result.blk].leaf
    /\ index[result.blk].tups # <<>>
    /\ nread = 0

(* C10: the heap-pointer error is raised for a leaf tuple with an inline
   list exactly when the last item-pointer of the decoded list has offset
   zero, and the element inspected always exists: the list is never read
   outside its decoded items. *)
C10_InspectedElementExists ==
    /\ ~oob
    /\ (Done /\ result.msg = "invalid heap pointer")
          => LET read == ginReadTupleWithoutState(index[result.blk].tups[result.off])
             IN  /\ read.nitems >= 1
                 /\ read.ipd[read.nitems][2] = InvalidOffsetNumber
    /\ (pc = "vleaf" /\ j > FirstOffsetNumber
           /\ ~index[Head(stack).blkno].tups[j - 1].ptree)
          => LET read == ginReadTupleWithoutState(index[Head(stack).blkno].tups[j - 1])
             IN  /\ read.nitems >= 1
                 /\ read.ipd[read.nitems][2] # InvalidOffsetNumber

(* C5: with a valid index and a writer that only performs valid page splits,
   a page that was split after the verifier read its parent and before it
   read the page itself is not reported as structural-corruption. *)
C5_NoFalsePositiveUnderSplits ==
    Done => \A s \in splits :
               s.queued => ~(result.kind = "structural-corruption"
                             /\ result.blk = s.left)

(* C11: a call that returns success has emitted no message, whatever the
   number of leaf tuples, posting lists and posting trees it validated. *)
C11_SuccessEmitsNothing ==
    Accepted => out = <<>>

-----------------------------------------------------------------------------
(* The specification of two consecutive calls on the same index *)

(* The second call.  The host has ended the first statement: its messages
   are delivered and the pages it held are released.  The locals of the
   walkers keep what the first call left in them until the second call
   assigns them. *)
Again ==
    /\ pc = "done"
    /\ first = NoCall
    /\ first' = [result |-> result, out |-> out]
    /\ pc' = "start"
    /\ result' = NoResult
    /\ out' = <<>>
    /\ held' = <<>>
    /\ visited' = {}
    /\ oob' = FALSE
    /\ nread' = 0
    /\ UNCHANGED <<index, stack, leafdepth, i, j, ptstack, ptleafdepth, rel,
                   cancel, splits>>

NextTwice ==
    \/ Next
    \/ Again

SpecTwice == Init /\ [][NextTwice]_vars

(* C12: the second of two consecutive calls on the same unchanging index
   ends with the outcome of the first and with the same message sequence,
   which is empty. *)
C12_SecondCallSame ==
    (Done /\ first # NoCall)
        => /\ result = first.result
           /\ out = first.out
           /\ out = <<>>

(* C13: no step of the verifier changes any page of the index: content,
   flags, right link, LSN and tuples of every page stay as they are; only
   the set of pages the verifier holds changes. *)
C13_ReadOnly ==
    [][index' = index]_vars

(* A call has finished after walking an entry page and the pages of a
   posting tree, all of them locked and released. *)
C13_WalkedAndReleased ==
    /\ Accepted
    /\ Cardinality(visited) >= 3
    /\ held = <<>>

(* The three eligibility conditions on the target relation. *)
Eligible(r) ==
    /\ r.relkind_index /\ r.relam_gin
    /\ ~r.other_temp
    /\ r.indisvalid

(* C14: on a relation that is not a GIN index, or is a temporary relation
   of another session, or is an invalid index, the call ends with
   unsupported-target and no page is ever read or locked; a page is read
   only when all three eligibility tests pass. *)
C14_UnsupportedTargetFirst ==
    /\ ~Eligible(rel)
         => /\ visited = {} /\ held = <<>> /\ stack = <<>>
            /\ Done => result.kind = "unsupported-target"
    /\ (visited # {} \/ stack # <<>>) => Eligible(rel)
    /\ (Done /\ result.kind = "unsupported-target") => ~Eligible(rel)

(* The call on an index marked invalid has been refused. *)
C14_InvalidIndexRefused ==
    /\ Done
    /\ result.kind = "unsupported-target"
    /\ rel.relkind_index /\ rel.relam_gin /\ ~rel.other_temp /\ ~rel.indisvalid
    /\ visited = {}

(* C15: in every reachable state the verifier holds at most one page lock,
   so that it holds none when it reads and locks a page. *)
C15_AtMostOneLock ==
    Len(held) <= 1

(* C16: when the call has ended, by success or by an error raised in the
   middle of a page visit, the verifier has released every page it
   acquired. *)
C16_AllReleasedAtExit ==
    Done => held = <<>>

(* A cancellation checkpoint: the top of a stack iteration of the entry
   walker or of the posting-tree walker. *)
AtCheckpoint ==
    \/ pc = "top" /\ stack # <<>>
    \/ pc = "pt" /\ ptstack # <<>>

(* C18: at every cancellation checkpoint the verifier holds no page. *)
C18_NothingHeldAtCheckpoint ==
    AtCheckpoint => held = <<>>

-----------------------------------------------------------------------------
(* The specification of one call that the host may cancel *)

(* The host sets the cancellation signal while the call runs. *)
Cancel ==
    /\ pc # "done"
    /\ ~cancel
    /\ cancel' = TRUE
    /\ UNCHANGED <<index, pc, stack, leafdepth, i, j, ptstack, ptleafdepth, held,
                   out, result, visited, oob, nread, first, rel, splits>>

NextCancel ==
    \/ Next
    \/ Cancel

SpecCancel == Init /\ [][NextCancel]_vars

(* C17: with the cancellation signal set, the step that starts a stack
   iteration of the entry walker or of the posting-tree walker acquires no
   page and ends the whole call with cancelled; and cancelled is raised
   only when the signal is set. *)
C17_CancelAtLoopTop ==
    /\ [][(cancel /\ AtCheckpoint)
            => /\ pc' = "done"
               /\ result'.kind = "cancelled"
               /\ held' = held
               /\ visited' = visited]_vars
    /\ [](result.kind = "cancelled" => cancel)

(* A call has been cancelled at the loop head of the posting-tree walker,
   after pages were visited. *)
C17_CancelledInPostingWalk ==
    /\ Done
    /\ result.kind = "cancelled"
    /\ ptstack # <<>>
    /\ visited # {}

(* The root is a valid leaf whose only tuple carries an inline list. *)
RootSingleInline(idx) ==
    LET root == idx[GIN_ROOT_BLKNO]
    IN  /\ root.leaf /\ ~root.deleted /\ Len(root.tups) = 1
        /\ ~root.tups[1].ptree
        /\ EntryPageValid(idx, GIN_ROOT_BLKNO)

(* The root is a valid leaf whose only tuple refers to a posting tree that
   is one valid leaf page. *)
RootSingleTree(idx) ==
    LET root == idx[GIN_ROOT_BLKNO]
    IN  /\ root.leaf /\ ~root.deleted /\ Len(root.tups) = 1
        /\ root.tups[1].ptree
        /\ EntryPageValid(idx, GIN_ROOT_BLKNO)
        /\ idx[root.tups[1].ptroot].leaf
        /\ DataPageValid(idx, root.tups[1].ptroot)

(* C19: an index whose root is an empty leaf is accepted after visiting
   exactly the root; an index whose root leaf holds one entry with a valid
   inline list is accepted and the posting-tree walker is never entered; an
   index whose single entry refers to a posting tree of one leaf page is
   accepted after visiting the root and that page. *)
C19_BoundaryCasesAccepted ==
    rel = GinIndexRel =>
        /\ index[GIN_ROOT_BLKNO] = EmptyLeaf
             => /\ visited \subseteq {GIN_ROOT_BLKNO}
                /\ Done => (Accepted /\ visited = {GIN_ROOT_BLKNO})
        /\ RootSingleInline(index)
             => /\ pc \notin {"pt", "ptscan"} /\ ptstack = <<>>
                /\ Done => (Accepted /\ visited = {GIN_ROOT_BLKNO})
        /\ (RootSingleTree(index) /\ Done)
             => /\ Accepted
                /\ visited = {GIN_ROOT_BLKNO, index[GIN_ROOT_BLKNO].tups[1].ptroot}

(* A call on an index whose single entry refers to a one-page posting tree
   has been accepted. *)
C19_SingleTreeAccepted ==
    /\ Accepted
    /\ RootSingleTree(index)
    /\ Cardinality(visited) = 2

(* C20: when the scan has taken the tuple at offset i through the size and
   order tests, downlink re-find is invoked exactly when the frame carries
   a parent tuple, i is the last offset of the page and
   compare(cur.key, parent.key) is zero or negative; otherwise, in
   particular for the root frame, for a tuple that is not the last, and
   when the comparison is strictly positive, the scan goes on with no
   message and no error. *)
C20_ParentCoverCheck ==
    [][(pc = "scan" /\ pc' \in {"refind", "descend"})
          => LET frame == Head(stack)
                 page == index[frame.blkno]
                 cur == page.tups[i]
                 uncovered ==
                     /\ frame.parenttup # NoTup
                     /\ i = Len(page.tups)
                     /\ ginCompareEntries(cur.attnum, cur.key, frame.parenttup.key,
                                          cur.category, frame.parenttup.category) <= 0
             IN  /\ (pc' = "refind") <=> uncovered
                 /\ (pc' = "descend") => (out' = out /\ result' = NoResult)]_vars

(* Downlink re-find has been invoked for the last tuple of a page whose
   frame carries a parent tuple. *)
C20_RefindInvoked ==
    /\ pc = "refind"
    /\ Head(stack).parenttup # NoTup
    /\ i = Len(index[Head(stack).blkno].tups)

-----------------------------------------------------------------------------
(* The first tuple of the page with a downlink to block b, looked up by
   recursion over the offsets from o on. *)
RECURSIVE FirstDownlinkTo(_, _, _)
FirstDownlinkTo(page, b, o) ==
    IF o > Len(page.tups) THEN NoTup
    ELSE IF page.tups[o].tid = b THEN page.tups[o]
    ELSE FirstDownlinkTo(page, b, o + 1)

(* C21: when downlink re-find returns no tuple, the verifier emits one
   notice, raises no error and goes on with the tuple, the page and the
   frames queued behind it; when it returns a tuple, structural-corruption
   is raised exactly when compare(cur.key, refreshed.key) is again zero or
   negative.  Every error ends the walk at once: the call is over in the
   state the error is raised in, and no page is acquired after it. *)
C21_FailedParentCheckOutcome ==
    /\ [][pc = "refound"
            => LET frame == Head(stack)
                   cur == index[frame.blkno].tups[i]
                   parent == index[frame.parentblk]
                   refreshed == IF parent.leaf THEN NoTup
                                ELSE FirstDownlinkTo(parent, frame.blkno, 1)
               IN  IF refreshed = NoTup
                   THEN /\ out' = Append(out, Message("NOTICE",
                                                      "unable to find parent tuple",
                                                      frame.blkno, 0))
                        /\ result' = NoResult
                        /\ pc' = "descend"
                        /\ i' = i
                        /\ Tail(stack') = Tail(stack)
                        /\ Head(stack').blkno = frame.blkno
                   ELSE /\ out' = out
                        /\ (result'.kind = "structural-corruption")
                             <=> ginCompareEntries(cur.attnum, cur.key, refreshed.key,
                                                   cur.category, refreshed.category) <= 0
                        /\ (result' = NoResult /\ pc' = "descend")
                             \/ (result'.msg = "inconsistent records" /\ pc' = "done")]_vars
    /\ [](result.kind \notin {"none", "ok"} => pc = "done")
    /\ [][pc = "done" => (held' = held /\ visited' = visited)]_vars

(* Re-find returned no tuple for a page reached over a right link: the
   notice has been emitted and the walk has gone on to the end. *)
C21_NoticeAndWalkContinued ==
    /\ Accepted
    /\ \E n \in 1 .. Len(out) : out[n].level = "NOTICE"

(* C22: downlink re-find locks the parent page, and its result is none when
   the parent page is a leaf or has no tuple with a downlink to the child
   block, the tuple of lowest offset with such a downlink otherwise; in
   each case the parent page is released, and the pages held after the
   call are the pages held before it. *)
C22_RefindParent ==
    /\ [][pc = "refind"
            => /\ pc' = "refound"
               /\ held' = Append(held, Head(stack).parentblk)
               /\ UNCHANGED <<stack, out, result>>]_vars
    /\ [][pc = "refound"
            => LET frame == Head(stack)
                   parent == index[frame.parentblk]
                   matches == {o \in 1 .. Len(parent.tups) :
                                  parent.tups[o].tid = frame.blkno}
                   returned == Head(stack').parenttup
               IN  /\ held # <<>>
                   /\ held[Len(held)] = frame.parentblk
                   /\ held' = SubSeq(held, 1, Len(held) - 1)
                   /\ (returned = NoTup) <=> (parent.leaf \/ matches = {})
                   /\ returned # NoTup
                        => \E o \in matches :
                              /\ returned = parent.tups[o]
                              /\ \A o2 \in matches : o <= o2]_vars

(* Re-find has replaced the parent tuple of the frame pushed for the second
   of two downlinks to the same child by the first of them, and the second
   comparison has failed against it: the frame pushed for the first
   downlink is still queued, and only the child page is held. *)
C22_LowestOffsetReturned ==
    /\ Done
    /\ result.msg = "inconsistent records"
    /\ stack # <<>>
    /\ Head(stack).parentblk # InvalidBlockNumber
    /\ LET frame == Head(stack)
           parent == index[frame.parentblk]
       IN  /\ Len(parent.tups) = 2
           /\ parent.tups[1].tid = frame.blkno
           /\ parent.tups[2].tid = frame.blkno
           /\ parent.tups[1] # parent.tups[2]
           /\ frame.parenttup = parent.tups[1]
           /\ \E n \in 2 .. Len(stack) : stack[n].blkno = frame.blkno
           /\ held = <<frame.blkno>>

(* C23: on the visit of an entry page a right-sibling frame is pushed
   exactly when the frame carries a parent tuple, the page has a right
   sibling, and compare(page_max.key, parent.key) is zero or negative,
   page_max being the last tuple of the page; the frame pushed has the
   depth, the parent block, the parent LSN and the parent tuple of the
   frame visited and the right sibling as its block; nothing is pushed for
   the root frame or for a right-most page. *)
C23_SiblingPushedExactlyWhen ==
    [][pc = "adjust"
         => LET frame == Head(stack)
                page == index[frame.blkno]
                maxoff == Len(page.tups)
                page_max == page.tups[maxoff]
                behind ==
                    /\ frame.parenttup # NoTup
                    /\ page.rightlink # InvalidBlockNumber
                    /\ maxoff >= 1
                    /\ ginCompareEntries(page_max.attnum, page_max.key,
                                         frame.parenttup.key, page_max.category,
                                         frame.parenttup.category) <= 0
            IN  IF behind
                THEN stack' = <<frame,
                                [depth |-> frame.depth,
                                 parenttup |-> frame.parenttup,
                                 parentblk |-> frame.parentblk,
                                 parentlsn |-> frame.parentlsn,
                                 blkno |-> page.rightlink]>> \o Tail(stack)
                ELSE stack' = stack]_vars

(* C24: the visit of an internal data page pushes one child frame for each
   of its posting items, whether or not the key of the item has a zero
   block or a zero offset, with depth one more than the depth of the frame
   visited, the block visited as parent block, the item as parent item and
   the child block of the item as its block; the visit of a leaf data page
   pushes nothing. *)
C24_ChildFramePerPostingItem ==
    [][(pc = "ptscan" /\ pc' = "pt")
         => LET frame == Head(ptstack)
                page == index[frame.blkno]
                n == Len(page.tups)
                children == [k \in 1 .. n |->
                                [depth |-> frame.depth + 1,
                                 parenttup |-> page.tups[n + 1 - k],
                                 parentblk |-> frame.blkno,
                                 blkno |-> page.tups[n + 1 - k].child_blkno]]
            IN  IF page.leaf
                THEN ptstack' = Tail(ptstack)
                ELSE ptstack' = children \o Tail(ptstack)]_vars

(* C25: the verifier never holds the lock of a page together with the lock
   of a page below it: the page an entry frame visits is not held together
   with the parent block of the frame, and no entry page is held while a
   page of a posting tree is held. *)
C25_NoParentAndChildLocked ==
    /\ \A n \in 1 .. Len(held) :
          held[n] \in DataBlocks => \A m \in 1 .. Len(held) : held[m] \notin EntryBlocks
    /\ (stack # <<>> /\ Locked(Head(stack).blkno)) => ~Locked(Head(stack).parentblk)

(* The messages validate_leaf has emitted for the tuples of block b: one
   for each payload it has validated. *)
PayloadValidations(b) ==
    {n \in 1 .. Len(out) :
        /\ out[n].msg \in {"validating posting list", "validating posting tree"}
        /\ out[n].blk = b}

(* C26: during the visit of a leaf entry page the payload validator is
   applied to the tuple the scan has reached and to no other, so that no
   payload at an offset above the current one is validated before the size
   and order tests of that offset; and when the visit of a leaf root with n
   tuples ends, n payloads have been validated. *)
C26_PayloadValidatedOncePerTuple ==
    /\ []((pc = "vleaf" /\ j <= Len(index[Head(stack).blkno].tups)) => j = i)
    /\ [](pc \in {"pt", "ptscan"} => j = i)
    /\ [][(pc = "scan" /\ pc' = "top" /\ Head(stack).depth = 0
             /\ index[Head(stack).blkno].leaf)
            => Cardinality(PayloadValidations(Head(stack).blkno))
                 = Len(index[Head(stack).blkno].tups)]_vars

(* C27: every scan item of the two walkers carries its parent tuple or
   parent posting item as a copy of its own: no scan item on either stack
   refers to the buffer of a page that the verifier has released. *)
C27_FramesOwnParentCopy ==
    /\ \A n \in 1 .. Len(stack) :
          EntryParentBuffer(stack[n]) # InvalidBlockNumber
            => Locked(EntryParentBuffer(stack[n]))
    /\ \A n \in 1 .. Len(ptstack) :
          PostingParentBuffer(ptstack[n]) # InvalidBlockNumber
            => Locked(PostingParentBuffer(ptstack[n]))

-----------------------------------------------------------------------------
(* The specification of one call that keeps running: the verifier is one
   sequential thread of a backend, which takes its next step as long as it
   has one. *)
SpecLive == Spec /\ WF_vars(Next)

(* No block is linked from itself through downlinks, posting-tree roots,
   child blocks and right links. *)
Acyclic(idx) ==
    \A b \in Blocks :
        b \notin LinkedFrom(idx, Successors(idx, b)
                                   \cup ({idx[b].rightlink} \ {InvalidBlockNumber}))

(* C28: on a static index whose downlinks and right links contain no
   cycle, with no cancellation signalled, the call eventually ends, with
   success or with an error. *)
C28_Termination ==
    (Acyclic(index) /\ ~cancel) ~> Done

(* A call that queued a right sibling has ended with both stacks empty. *)
C28_EndedAfterSiblingQueued ==
    /\ Done
    /\ stack = <<>>
    /\ ptstack = <<>>
    /\ \E n \in 1 .. Len(out) : out[n].msg = "split detected"

====
